---- MODULE Spec2Model ----
(***************************************************************************)
(* Model of the click-to-sort table script                                 *)
(* (src/weekly_app/static/js/table_sort.js) and of its single-table        *)
(* category-sales variant (src/unnamed/part_000).                          *)
(*                                                                         *)
(* A string is a sequence of one-character tokens.  Characters outside     *)
(* ASCII are written as names: "RUPEE" is the rupee sign, "EMDASH" the     *)
(* em-dash, "SP" a space.                                                  *)
(***************************************************************************)
EXTENDS Integers, Sequences, FiniteSets, TLC

VARIABLES
    kind,       \* shape of the table: which header section it has
    cells,      \* row id -> the row's cells (a sequence of strings)
    body,       \* tbody.rows: the row ids in their current order
    rowIndex,   \* row id -> row.__rowIndex
    attached,   \* TRUE when the click listeners were attached
    sortState,  \* column index -> "asc" | "desc" (the next click's direction)
    clicks,     \* column index -> number of clicks so far (history)
    lastCol,    \* column of the most recent click, -1 before any (history)
    lastDir,    \* direction the most recent click sorted with (history)
    text,       \* argument handed to parseExcelValue
    parsed,     \* what parseExcelValue returned for it
    script,     \* which of the two scripts the page loads
    error,      \* "none", or the exception a handler ended with
    kind2,      \* shape of the document's second table, "absent" without one
    body2,      \* tbody.rows of the second table
    attached2,  \* TRUE when the second table's listeners were attached
    sortState2  \* sortState of the second table

docVars == <<script, error, kind2, body2, attached2, sortState2>>

vars == <<kind, cells, body, rowIndex, attached, sortState, clicks,
          lastCol, lastDir, text, parsed, script, error, kind2, body2,
          attached2, sortState2>>

tableVars == <<kind, cells, body, rowIndex, attached, sortState, clicks,
               lastCol, lastDir>>

(***************************************************************************)
(* Bounds.                                                                 *)
(***************************************************************************)
MaxLen == 3
MaxRows == 3
MaxClicks == 3

(***************************************************************************)
(* Strings.                                                                *)
(***************************************************************************)
Digits == {"0", "1", "2", "3", "4", "5", "6", "7", "8", "9"}

DigitVal(ch) ==
    CASE ch = "0" -> 0 [] ch = "1" -> 1 [] ch = "2" -> 2 [] ch = "3" -> 3
      [] ch = "4" -> 4 [] ch = "5" -> 5 [] ch = "6" -> 6 [] ch = "7" -> 7
      [] ch = "8" -> 8 [] ch = "9" -> 9

WhiteSpace == {"SP"}

RECURSIVE TrimLeft(_)
TrimLeft(s) ==
    IF s # <<>> /\ Head(s) \in WhiteSpace THEN TrimLeft(Tail(s)) ELSE s

RECURSIVE TrimRight(_)
TrimRight(s) ==
    IF s # <<>> /\ s[Len(s)] \in WhiteSpace
    THEN TrimRight(SubSeq(s, 1, Len(s) - 1))
    ELSE s

\* String.prototype.trim
trim(s) == TrimRight(TrimLeft(s))

LowerChar(ch) ==
    CASE ch = "A" -> "a" [] ch = "B" -> "b" [] ch = "N" -> "n" [] OTHER -> ch

\* String.prototype.toLowerCase
toLowerCase(s) == [i \in 1..Len(s) |-> LowerChar(s[i])]

IsFormatting(ch) == ch \in {"RUPEE", ",", "%"}

NotFormatting(ch) == ~IsFormatting(ch)

\* raw.replace(/RUPEE|,|%/g, "")
StripFormatting(s) == SelectSeq(s, NotFormatting)

(***************************************************************************)
(* Numbers.  A finite number is m * 10^(-e), kept normalised (no trailing  *)
(* zero in the fraction, zero is 0 * 10^0) so that equal numbers are equal *)
(* records; nan marks NaN.                                                 *)
(***************************************************************************)
NaN == [nan |-> TRUE, m |-> 0, e |-> 0]

RECURSIVE Normalise(_, _)
Normalise(m, e) ==
    IF e > 0 /\ m % 10 = 0 THEN Normalise(m \div 10, e - 1)
    ELSE [nan |-> FALSE, m |-> m, e |-> e]

RECURSIVE DigitsValue(_)
DigitsValue(s) ==
    IF s = <<>> THEN 0
    ELSE 10 * DigitsValue(SubSeq(s, 1, Len(s) - 1)) + DigitVal(s[Len(s)])

IsDigitChar(ch) == ch \in Digits

IsDotChar(ch) == ch = "."

\* StrUnsignedDecimalLiteral without exponent: digits, at most one ".",
\* at least one digit.
UnsignedDecimal(s) ==
    LET ds == SelectSeq(s, IsDigitChar)
        dots == SelectSeq(s, IsDotChar)
        dot == CHOOSE i \in 1..Len(s) : s[i] = "."
    IN  IF Len(ds) + Len(dots) # Len(s) \/ Len(dots) > 1 \/ Len(ds) = 0
        THEN NaN
        ELSE IF Len(dots) = 0 THEN Normalise(DigitsValue(ds), 0)
        ELSE Normalise(DigitsValue(ds), Len(s) - dot)

\* Number(string): white space is trimmed, the empty string is 0, a signed
\* decimal literal is its value, anything else is NaN.
Number(s) ==
    LET t == trim(s)
    IN  IF t = <<>> THEN Normalise(0, 0)
        ELSE IF Head(t) = "-"
             THEN LET u == UnsignedDecimal(Tail(t))
                  IN  IF u.nan THEN NaN ELSE Normalise(0 - u.m, u.e)
        ELSE IF Head(t) = "+" THEN UnsignedDecimal(Tail(t))
        ELSE UnsignedDecimal(t)

isNaN(n) == n.nan

RECURSIVE Pow10(_)
Pow10(k) == IF k = 0 THEN 1 ELSE 10 * Pow10(k - 1)

\* x - y for finite x, y, scaled by a positive power of ten (same sign)
NumSub(x, y) == x.m * Pow10(y.e) - y.m * Pow10(x.e)

(***************************************************************************)
(* parseExcelValue                                                         *)
(***************************************************************************)
EmDash == <<"EMDASH">>

Hyphen == <<"-">>

\* the replace without the percent sign
CleanedKeepPercent(raw) == SelectSeq(raw, LAMBDA ch : ch \notin {"RUPEE", ","})

Cleaned(raw) == StripFormatting(raw)

parseExcelValue(t) ==
    LET raw == trim(t)
        cleaned == Cleaned(raw)
        num == Number(cleaned)
    IN  IF raw = <<>> \/ raw = Hyphen \/ raw = EmDash
        THEN [type |-> "blank", value |-> "null"]
        ELSE IF ~isNaN(num)
        THEN [type |-> "number", value |-> num]
        ELSE [type |-> "text", value |-> toLowerCase(raw)]

NotParsed == [type |-> "none", value |-> "null"]

(***************************************************************************)
(* The comparator of the click listener.                                   *)
(***************************************************************************)
\* Collation order of the characters (CLDR root: white space, punctuation,
\* symbols, currency, digits, letters).
CollationOrder ==
    <<"SP", "-", "EMDASH", ",", ".", "%", "RUPEE",
      "0", "1", "2", "3", "4", "5", "6", "7", "8", "9", "a", "b", "n">>

Rank(ch) == CHOOSE i \in 1..Len(CollationOrder) : CollationOrder[i] = ch

\* a.localeCompare(b): negative, zero or positive
RECURSIVE localeCompare(_, _)
localeCompare(a, b) ==
    IF a = <<>> /\ b = <<>> THEN 0
    ELSE IF a = <<>> THEN -1
    ELSE IF b = <<>> THEN 1
    ELSE IF Rank(Head(a)) < Rank(Head(b)) THEN -1
    ELSE IF Rank(Head(a)) > Rank(Head(b)) THEN 1
    ELSE localeCompare(Tail(a), Tail(b))

\* a missing cell read as the text "na" instead of the default ""
innerTextPlaceholder(row, colIndex) ==
    IF colIndex + 1 <= Len(cells[row]) THEN cells[row][colIndex + 1] ELSE <<"n", "a">>

\* row.cells[colIndex]?.innerText, undefined replaced by the default ""
innerText(row, colIndex) ==
    IF colIndex + 1 <= Len(cells[row]) THEN cells[row][colIndex + 1] ELSE <<>>

\* the comparator with the blank rule following the direction
compareBlankByDirection(rowA, rowB, colIndex, direction) ==
    LET A == parseExcelValue(innerText(rowA, colIndex))
        B == parseExcelValue(innerText(rowB, colIndex))
    IN  IF A.type = "number" /\ B.type = "number"
        THEN IF A.value # B.value
             THEN IF direction = "desc"
                  THEN NumSub(B.value, A.value)
                  ELSE NumSub(A.value, B.value)
             ELSE rowIndex[rowA] - rowIndex[rowB]
        ELSE IF A.type # B.type
        THEN IF (A.type = "blank") = (direction = "desc") THEN 1 ELSE -1
        ELSE IF A.value # B.value
        THEN IF direction = "desc"
             THEN localeCompare(B.value, A.value)
             ELSE localeCompare(A.value, B.value)
        ELSE rowIndex[rowA] - rowIndex[rowB]

compare(rowA, rowB, colIndex, direction) ==
    LET A == parseExcelValue(innerText(rowA, colIndex))
        B == parseExcelValue(innerText(rowB, colIndex))
    IN  IF A.type = "number" /\ B.type = "number"
        THEN IF A.value # B.value
             THEN IF direction = "desc"
                  THEN NumSub(B.value, A.value)
                  ELSE NumSub(A.value, B.value)
             ELSE rowIndex[rowA] - rowIndex[rowB]
        ELSE IF A.type # B.type
        THEN IF A.type = "blank" THEN 1 ELSE -1
        ELSE IF A.value # B.value
        THEN IF direction = "desc"
             THEN localeCompare(B.value, A.value)
             ELSE localeCompare(A.value, B.value)
        ELSE rowIndex[rowA] - rowIndex[rowB]

(***************************************************************************)
(* rows.sort(comparator).  ECMAScript fixes the result only when the       *)
(* comparator is consistent; otherwise the order is implementation-defined.*)
(* Every comparison sort in use (insertion, binary insertion, merge,       *)
(* TimSort) puts x immediately before y only after a call of the           *)
(* comparator on that pair said so: compare(x, y) < 0, or compare(y, x)    *)
(* > 0, or a zero with x ahead of y in the input (the sort is stable).     *)
(* The outcomes are the arrangements all of whose neighbours pass that     *)
(* test: exactly one when the comparator is a total order on the rows, a   *)
(* choice among several when it is not.                                    *)
(***************************************************************************)
PosIn(seq, x) == CHOOSE i \in 1..Len(seq) : seq[i] = x

Range(seq) == {seq[i] : i \in 1..Len(seq)}

MayPrecede(rows, x, y, colIndex, direction) ==
    LET xy == compare(x, y, colIndex, direction)
    IN  \/ xy < 0
        \/ xy = 0 /\ PosIn(rows, x) < PosIn(rows, y)
        \/ compare(y, x, colIndex, direction) > 0

RECURSIVE Arrange(_, _, _, _, _)
Arrange(rows, placed, rest, colIndex, direction) ==
    IF rest = {} THEN {placed}
    ELSE UNION { Arrange(rows, Append(placed, y), rest \ {y}, colIndex, direction) :
                 y \in { z \in rest :
                           \/ placed = <<>>
                           \/ MayPrecede(rows, placed[Len(placed)], z,
                                         colIndex, direction) } }

sort(rows, colIndex, direction) ==
    Arrange(rows, <<>>, Range(rows), colIndex, direction)

(***************************************************************************)
(* The DOM operations of the click listener.                               *)
(***************************************************************************)
\* tbody.appendChild(row): a row already in the body is moved to its end
appendChild(rows, row) ==
    Append(SelectSeq(rows, LAMBDA x : x # row), row)

\* the body replaced by the sorted rows instead of re-appending them
ReattachReplace(tbodyRows, rows) == rows

RECURSIVE Reattach(_, _)
\* rows.forEach(row => tbody.appendChild(row))
Reattach(tbodyRows, rows) ==
    IF rows = <<>> THEN tbodyRows
    ELSE Reattach(appendChild(tbodyRows, Head(rows)), Tail(rows))

slice1(rows) == SubSeq(rows, 2, Len(rows))

\* table.tHead is an element (with or without rows) or null
HasTHead == kind \in {"thead", "emptyThead"}

\* the rows the listener sorts
SortedRows(rows) == IF ~HasTHead THEN slice1(rows) ELSE rows

\* a toggle that never leaves "desc"
toggleStuck(direction) == IF direction = "desc" THEN "desc" ELSE "asc"

toggle(direction) == IF direction = "desc" THEN "asc" ELSE "desc"

\* one direction shared by all the columns
flipAll(state, colIndex, direction) ==
    [c \in DOMAIN state |-> toggle(direction)]

\* sortState[colIndex] = direction === "desc" ? "asc" : "desc"
flip(state, colIndex, direction) ==
    [state EXCEPT ![colIndex] = toggle(direction)]

\* the tags counted from one
cacheRowIndexFromOne(rows) ==
    [r \in Range(rows) |-> PosIn(rows, r)]

\* Array.from(tbody.rows).forEach((row, index) => { row.__rowIndex = index })
cacheRowIndex(rows) ==
    [r \in Range(rows) |-> PosIn(rows, r) - 1]

(***************************************************************************)
(* The tables the page may hold.                                           *)
(***************************************************************************)
Kinds == {"thead", "emptyThead", "noThead", "noTbody"}

\* cells of the first row of a header section that has rows
TheadCols == {0, 1}

RowPool ==
    { << <<"1", "2">>, <<"b">> >>,
      << <<"RUPEE", "3">>, <<"A">> >>,
      << <<"b">>, <<"3">> >>,
      << <<"-">>, <<"%">> >>,
      << <<"3">> >> }

Rows(n) == 1..n

\* a document holding one table, handled by table_sort.js
OneTableDocument ==
    /\ script = "table_sort"
    /\ error = "none"
    /\ kind2 = "absent"
    /\ body2 = <<>>
    /\ attached2 = FALSE
    /\ sortState2 = <<>>

\* headerCells of the DOMContentLoaded handler, as column indices
HeaderCols(k, cs, n) ==
    IF k = "thead" THEN TheadCols
    ELSE IF n > 0 THEN 0..(Len(cs[1]) - 1)
    ELSE {}

Init ==
    /\ text = <<>>
    /\ parsed = NotParsed
    /\ kind \in Kinds
    /\ \E n \in 0..MaxRows :
         /\ (kind = "noTbody") => (n = 0)
         /\ cells \in [Rows(n) -> RowPool]
         /\ body = [i \in Rows(n) |-> i]
         /\ LET hc == HeaderCols(kind, cells, n)
                skip == kind = "noTbody" \/ hc = {}
            IN  /\ attached = ~skip
                /\ rowIndex = IF skip THEN <<>> ELSE cacheRowIndex(body)
                /\ sortState = IF skip THEN <<>> ELSE [c \in hc |-> "desc"]
                /\ clicks = IF skip THEN <<>> ELSE [c \in hc |-> 0]
    /\ lastCol = -1
    /\ lastDir = "none"
    /\ OneTableDocument

RECURSIVE SumOver(_, _)
SumOver(f, S) ==
    IF S = {} THEN 0
    ELSE LET x == CHOOSE y \in S : TRUE IN f[x] + SumOver(f, S \ {x})

TotalClicks == SumOver(clicks, DOMAIN clicks)

\* th.addEventListener("click", ...) for the header of column colIndex
Click(colIndex) ==
    /\ attached
    /\ colIndex \in DOMAIN sortState
    /\ TotalClicks < MaxClicks
    /\ LET rows == SortedRows(body)
           direction == sortState[colIndex]
       IN  /\ \E sorted \in sort(rows, colIndex, direction) :
                 body' = Reattach(body, sorted)
           /\ sortState' = flip(sortState, colIndex, direction)
           /\ lastDir' = direction
    /\ clicks' = [clicks EXCEPT ![colIndex] = @ + 1]
    /\ lastCol' = colIndex
    /\ UNCHANGED <<kind, cells, rowIndex, attached, text, parsed>>

Next == \E colIndex \in DOMAIN sortState : Click(colIndex) /\ UNCHANGED docVars

Spec == Init /\ [][Next]_vars

(***************************************************************************)
(* Vocabulary of the properties.                                           *)
(***************************************************************************)
Directions == {"asc", "desc"}

\* the header cells were taken from the first row of the body
HeaderFromBody == attached /\ kind \in {"emptyThead", "noThead"}

\* the data rows: every body row but a header row living in the body
DataRows == IF HeaderFromBody THEN DOMAIN cells \ {1} ELSE DOMAIN cells

Pos(row) == PosIn(body, row)

Key(row, colIndex) == parseExcelValue(innerText(row, colIndex))

Clicked == lastCol # -1

TypeRank(type) == CASE type = "number" -> 1 [] type = "text" -> 2 [] type = "blank" -> 3

\* the value of a is larger than the value of b (same type, number or text)
Larger(a, b) ==
    IF a.type = "number" THEN NumSub(a.value, b.value) > 0
    ELSE localeCompare(a.value, b.value) > 0

\* C1: after any clicks, two data rows whose cells in the last-clicked column
\* are equal under the primary key stand in load-time order (ascending tag).
C1_StableToLoadOrder ==
    Clicked =>
        \A a, b \in DataRows :
            (/\ Key(a, lastCol) = Key(b, lastCol)
             /\ rowIndex[a] < rowIndex[b]) => Pos(a) < Pos(b)

\* C2: after a click on a column, in either direction, every data row with a
\* blank cell in that column stands after every data row with a number or text.
C2_BlanksLast ==
    Clicked =>
        \A a, b \in DataRows :
            (/\ Key(a, lastCol).type = "blank"
             /\ Key(b, lastCol).type # "blank") => Pos(b) < Pos(a)

\* a blank row that was loaded ahead of a non-blank row, after an ascending
\* and after a descending click
C2_Witness ==
    /\ Clicked
    /\ lastDir = "asc"
    /\ kind = "thead"
    /\ \E a, b \in DataRows :
          /\ Key(a, lastCol).type = "blank"
          /\ Key(b, lastCol).type = "text"
          /\ rowIndex[a] < rowIndex[b]
          /\ Pos(b) < Pos(a)

\* C3: the k-th click on a column sorts descending exactly when k is odd:
\* the next click on a column clicked k times uses "desc" iff k is even, and
\* the click just made was the clicks[lastCol]-th on its column.
C3_DirectionToggle ==
    /\ \A c \in DOMAIN sortState :
          sortState[c] = IF clicks[c] % 2 = 0 THEN "desc" ELSE "asc"
    /\ Clicked => lastDir = IF clicks[lastCol] % 2 = 1 THEN "desc" ELSE "asc"

C3_Witness ==
    /\ Clicked
    /\ clicks[lastCol] = 3
    /\ lastDir = "desc"
    /\ sortState[lastCol] = "asc"

\* C4: after a click on a column, every data row with a number in it stands
\* before every data row with text, and every text row before every blank row.
C4_TypePrecedence ==
    Clicked =>
        \A a, b \in DataRows :
            TypeRank(Key(a, lastCol).type) < TypeRank(Key(b, lastCol).type)
                => Pos(a) < Pos(b)

\* C5: for a fixed column and direction the comparator is a strict total
\* order on the data rows: exactly one of compare(a,b) < 0, compare(b,a) < 0
\* for distinct rows, transitive, zero only for a row against itself.
C5_StrictTotalOrder ==
    attached =>
        \A c \in DOMAIN sortState : \A d \in Directions :
            /\ \A a, b \in DataRows :
                  /\ (a # b) => ((compare(a, b, c, d) < 0) # (compare(b, a, c, d) < 0))
                  /\ (compare(a, b, c, d) = 0) <=> (a = b)
            /\ \A a, b, x \in DataRows :
                  (compare(a, b, c, d) < 0 /\ compare(b, x, c, d) < 0)
                      => compare(a, x, c, d) < 0

\* C6: a header row taken from the body is still the first row of the body
\* after any clicks.
C6_HeaderRowStaysFirst ==
    HeaderFromBody => body[1] = 1

\* the data rows in their current order
DataOrder == SelectSeq(body, LAMBDA r : r \in DataRows)

\* the data rows in load-time order
LoadOrder == SelectSeq([i \in DOMAIN cells |-> i], LAMBDA r : r \in DataRows)

NoDuplicates(colIndex) ==
    \A a, b \in DataRows : (a # b) => Key(a, colIndex) # Key(b, colIndex)

\* C7: on a column without duplicate values the order a click leaves is the
\* order of a single sort of the load-time order in that direction, however
\* many sorts came before.
C7_SortIndependentOfHistory ==
    (Clicked /\ NoDuplicates(lastCol)) =>
        \A single \in sort(LoadOrder, lastCol, lastDir) : DataOrder = single

\* C8: after a click, of two data rows that both hold numbers (or both text)
\* with different values the larger stands first when the click sorted
\* descending, second when it sorted ascending.
C8_ValueOrder ==
    Clicked =>
        \A a, b \in DataRows :
            LET A == Key(a, lastCol)
                B == Key(b, lastCol)
            IN  (/\ A.type = B.type
                 /\ A.type \in {"number", "text"}
                 /\ Larger(A, B))
                    => IF lastDir = "desc" THEN Pos(a) < Pos(b) ELSE Pos(b) < Pos(a)

\* C9: the body always holds exactly the rows it held at load time, each
\* once, and no step changes the cells of a row.
C9_OnlyPermutes ==
    /\ [](Range(body) = DOMAIN cells /\ Len(body) = Cardinality(DOMAIN cells))
    /\ [][cells' = cells]_vars

\* a click has moved rows around a header row that lives in the body
C9_Witness ==
    /\ Clicked
    /\ kind = "noThead"
    /\ Len(body) = 3
    /\ body # [i \in DOMAIN cells |-> i]

(***************************************************************************)
(* The classification the parser is specified to make, stated from the     *)
(* grammar of a numeric literal instead of the conversion.                 *)
(***************************************************************************)
AllDigits(s) == \A i \in 1..Len(s) : s[i] \in Digits

\* the splits of u into integer digits and fraction digits, one digit at least
LiteralSplits(u) ==
    { sp \in { <<SubSeq(u, 1, i), SubSeq(u, i + 1, Len(u))>> : i \in 0..Len(u) } :
        /\ AllDigits(sp[1])
        /\ \/ sp[2] = <<>>
           \/ Head(sp[2]) = "." /\ AllDigits(Tail(sp[2]))
        /\ Len(sp[1]) + Len(SelectSeq(sp[2], IsDigitChar)) >= 1 }

\* the values of s read as a signed decimal literal between white space:
\* empty when s is no literal
LiteralValues(s) ==
    LET t == trim(s)
        signed == t # <<>> /\ Head(t) \in {"-", "+"}
        u == IF signed THEN Tail(t) ELSE t
        sign == IF signed /\ Head(t) = "-" THEN -1 ELSE 1
    IN  { Normalise(sign * DigitsValue(sp[1] \o SelectSeq(sp[2], IsDigitChar)),
                    Len(SelectSeq(sp[2], IsDigitChar))) : sp \in LiteralSplits(u) }

WithoutSymbols(s) == SelectSeq(s, LAMBDA ch : ch \notin {"RUPEE", ",", "%"})

IsBlankText(raw) == raw \in {<<>>, <<"-">>, <<"EMDASH">>}

Zero == Normalise(0, 0)

\* the classification as claimed: a number only for a numeric literal
ClaimedParse(t) ==
    LET raw == trim(t)
        vals == LiteralValues(WithoutSymbols(raw))
    IN  IF IsBlankText(raw) THEN [type |-> "blank", value |-> "null"]
        ELSE IF vals # {} THEN [type |-> "number", value |-> CHOOSE v \in vals : TRUE]
        ELSE [type |-> "text", value |-> [i \in 1..Len(raw) |-> LowerChar(raw[i])]]

\* the same, with a text that is empty or white space once the symbols are
\* removed classified as the number 0
AmendedParse(t) ==
    LET raw == trim(t)
    IN  IF ~IsBlankText(raw) /\ trim(WithoutSymbols(raw)) = <<>>
        THEN [type |-> "number", value |-> Zero]
        ELSE ClaimedParse(t)

Rupee1200 == <<"RUPEE", "1", ",", "2", "0", "0">>

Percent45 == <<"4", "5", "%">>

Banana == <<"B", "a", "n", "a", "n", "a">>

MissingCell(row, colIndex) == colIndex + 1 > Len(cells[row])

\* the row's cell at the column is missing or holds "", "-" or the em-dash
BlankAt(row, colIndex) ==
    \/ MissingCell(row, colIndex)
    \/ IsBlankText(trim(cells[row][colIndex + 1]))

\* C11: a click on a column where some data row has no cell ends without an
\* error; the row counts as blank: it stands after every non-blank row and the
\* blank rows stand in load-time order; the column's direction is flipped.
C11_MissingCellIsBlank ==
    (Clicked /\ \E r \in DataRows : MissingCell(r, lastCol)) =>
        /\ error = "none"
        /\ \A r, b \in DataRows :
              (MissingCell(r, lastCol) /\ ~BlankAt(b, lastCol)) => Pos(b) < Pos(r)
        /\ \A a, b \in DataRows :
              (/\ BlankAt(a, lastCol)
               /\ BlankAt(b, lastCol)
               /\ rowIndex[a] < rowIndex[b]) => Pos(a) < Pos(b)
        /\ sortState[lastCol] = IF lastDir = "desc" THEN "asc" ELSE "desc"

\* two rows without the cell, the first loaded ahead of a row that has a
\* value, after an ascending click on that column
C11_Witness ==
    /\ Clicked
    /\ lastDir = "asc"
    /\ \E r1, r2, b \in DataRows :
          /\ r1 # r2
          /\ MissingCell(r1, lastCol)
          /\ MissingCell(r2, lastCol)
          /\ ~BlankAt(b, lastCol)
          /\ rowIndex[r1] < rowIndex[b]
          /\ Pos(b) < Pos(r1)

\* C13: a click on a column's header flips that column's next direction and
\* leaves every other column's unchanged, and the direction it sorts with is
\* fixed by the number of earlier clicks on that same column alone.
C13_ColumnIndependence ==
    [][ /\ \A c \in DOMAIN sortState :
              IF c = lastCol'
              THEN sortState'[c] # sortState[c]
              ELSE sortState'[c] = sortState[c]
        /\ lastDir' = IF clicks[lastCol'] % 2 = 0 THEN "desc" ELSE "asc" ]_vars

\* the second click on column 0 came with one click on column 1 made
C13_Witness ==
    /\ DOMAIN sortState = {0, 1}
    /\ clicks[0] = 2
    /\ clicks[1] = 1
    /\ lastCol = 0
    /\ lastDir = "asc"
    /\ sortState[0] = "desc"
    /\ sortState[1] = "asc"

\* the load-time position of a row, counted from zero (Init loads row i at
\* position i)
LoadPosition(row) == row - 1

AllSymbols(row, colIndex) ==
    /\ ~MissingCell(row, colIndex)
    /\ trim(cells[row][colIndex + 1]) # <<>>
    /\ WithoutSymbols(trim(cells[row][colIndex + 1])) = <<>>

\* C16: a cell made only of the stripped symbols is the number 0: after a
\* click its row stands before every blank row and, against a row holding
\* another number, where a zero belongs for the direction of the click.
C16_AllSymbolsIsZero ==
    attached =>
        /\ \A r \in DataRows : \A c \in DOMAIN sortState :
              AllSymbols(r, c) => Key(r, c) = [type |-> "number", value |-> Zero]
        /\ Clicked =>
              \A a, b \in DataRows :
                  AllSymbols(a, lastCol) =>
                      /\ BlankAt(b, lastCol) => Pos(a) < Pos(b)
                      /\ (Key(b, lastCol).type = "number" /\ Key(b, lastCol).value # Zero)
                            => IF (NumSub(Key(b, lastCol).value, Zero) > 0) = (lastDir = "desc")
                               THEN Pos(b) < Pos(a)
                               ELSE Pos(a) < Pos(b)

(***************************************************************************)
(* Inputs of the parser specification.                                     *)
(***************************************************************************)
Alphabet == {"0", "1", "2", ".", "-", ",", "%", "RUPEE", "EMDASH", "SP", "a", "B"}

RECURSIVE StringsOfLen(_)
StringsOfLen(n) ==
    IF n = 0 THEN {<<>>}
    ELSE {Append(s, ch) : s \in StringsOfLen(n - 1), ch \in Alphabet}

Strings == UNION {StringsOfLen(n) : n \in 0..MaxLen}

Examples == {Rupee1200, Percent45, Banana}

EmptyTable ==
    /\ kind = "thead"
    /\ cells = <<>>
    /\ body = <<>>
    /\ rowIndex = <<>>
    /\ attached = FALSE
    /\ sortState = <<>>
    /\ clicks = <<>>
    /\ lastCol = -1
    /\ lastDir = "none"
    /\ OneTableDocument

InitParse ==
    /\ EmptyTable
    /\ text \in Strings \cup Examples
    /\ parsed = NotParsed

Parse ==
    /\ parsed = NotParsed
    /\ parsed' = parseExcelValue(text)
    /\ UNCHANGED <<text, tableVars, docVars>>

NextParse == Parse

SpecParse == InitParse /\ [][NextParse]_vars

(***************************************************************************)
(* Documents with up to two tables, under either script.  table_sort.js    *)
(* handles every table of the document; the category-sales script          *)
(* (src/unnamed/part_000) handles the first table only and reads           *)
(* table.tHead.rows[0].cells without a test.  Its click listener sorts     *)
(* all the body rows, which is what SortedRows gives for a table with a    *)
(* header section, the only tables it attaches listeners to.  The rows of  *)
(* the second table are numbered from SecondBase + 1.                      *)
(***************************************************************************)
Scripts == {"table_sort", "category_sales"}

DocPool ==
    { << <<"1", "2">>, <<"b">> >>,
      << <<"RUPEE", "3">>, <<"A">> >> }

Table2Sizes == {0, 2}

SecondBase == MaxRows + 1

\* the handler that looks at the first table only, whatever the script
HandledFirstOnly(scriptName, t) == t = 1

\* document.querySelectorAll("table").forEach / document.querySelector("table")
Handled(scriptName, t) == scriptName = "table_sort" \/ t = 1

\* headerCells for a table whose body rows are rows
HeaderColsOf(k, cs, rows) ==
    IF k = "thead" THEN TheadCols
    ELSE IF rows # <<>> THEN 0..(Len(cs[rows[1]]) - 1)
    ELSE {}

\* if (!tbody) return ... if (headerCells.length === 0) return
Skipped(k, hc) == k \in {"absent", "noTbody"} \/ hc = {}

\* table.tHead.rows[0].cells with tHead null or without rows
Throws(scriptName, k) ==
    scriptName = "category_sales" /\ k \in {"emptyThead", "noThead"}

InitDoc ==
    /\ text = <<>>
    /\ parsed = NotParsed
    /\ script \in Scripts
    /\ kind \in Kinds
    /\ kind2 \in Kinds \cup {"absent"}
    /\ \E n \in 0..MaxRows, m \in Table2Sizes :
         /\ (kind = "noTbody") => (n = 0)
         /\ (kind2 \in {"noTbody", "absent"}) => (m = 0)
         /\ body = [i \in Rows(n) |-> i]
         /\ body2 = [i \in Rows(m) |-> SecondBase + i]
         /\ cells \in [Range(body) \cup Range(body2) -> DocPool]
         /\ LET hc1 == HeaderColsOf(kind, cells, body)
                hc2 == HeaderColsOf(kind2, cells, body2)
                on1 == /\ Handled(script, 1)
                       /\ ~Throws(script, kind)
                       /\ ~Skipped(kind, hc1)
                on2 == /\ Handled(script, 2)
                       /\ ~Skipped(kind2, hc2)
                tags1 == IF on1 THEN cacheRowIndex(body) ELSE <<>>
                tags2 == IF on2 THEN cacheRowIndex(body2) ELSE <<>>
            IN  /\ error = IF Throws(script, kind) THEN "TypeError" ELSE "none"
                /\ attached = on1
                /\ attached2 = on2
                /\ rowIndex = [r \in DOMAIN tags1 \cup DOMAIN tags2 |->
                                 IF r \in DOMAIN tags1 THEN tags1[r] ELSE tags2[r]]
                /\ sortState = IF on1 THEN [c \in hc1 |-> "desc"] ELSE <<>>
                /\ clicks = IF on1 THEN [c \in hc1 |-> 0] ELSE <<>>
                /\ sortState2 = IF on2 THEN [c \in hc2 |-> "desc"] ELSE <<>>
    /\ lastCol = -1
    /\ lastDir = "none"

\* a click on a header of the first table
Click1(colIndex) == Click(colIndex) /\ UNCHANGED docVars

\* the rows the second table's listener sorts
SortedRows2(rows) ==
    IF kind2 \notin {"thead", "emptyThead"} THEN slice1(rows) ELSE rows

\* a click on a header of the second table
Click2(colIndex) ==
    /\ attached2
    /\ colIndex \in DOMAIN sortState2
    /\ LET rows == SortedRows2(body2)
           direction == sortState2[colIndex]
       IN  /\ \E sorted \in sort(rows, colIndex, direction) :
                 body2' = Reattach(body2, sorted)
           /\ sortState2' = flip(sortState2, colIndex, direction)
    /\ UNCHANGED <<tableVars, text, parsed, script, error, kind2, attached2>>

NextDoc ==
    \/ \E colIndex \in DOMAIN sortState : Click1(colIndex)
    \/ \E colIndex \in DOMAIN sortState2 : Click2(colIndex)

SpecDoc == InitDoc /\ [][NextDoc]_vars

(***************************************************************************)
(* Properties of documents.                                                *)
(***************************************************************************)
LoadOrder1 == [i \in 1..Len(body) |-> i]

LoadOrder2 == [i \in 1..Len(body2) |-> SecondBase + i]

\* the table has no body
NoBody(k) == k = "noTbody"

\* no header section with a row and no body row
NoHeaderCells(k, rows) == k \in {"emptyThead", "noThead"} /\ rows = <<>>

\* C12: initialising a table without a body, or without a header row and
\* without body rows, is a silent skip: no error, no listener, no sort state,
\* and its rows are never reordered.
C12_SilentSkip ==
    /\ (NoBody(kind) \/ NoHeaderCells(kind, body)) =>
          /\ error = "none"
          /\ ~attached
          /\ sortState = <<>>
          /\ body = LoadOrder1
    /\ (NoBody(kind2) \/ NoHeaderCells(kind2, body2)) =>
          /\ script = "table_sort" => error = "none"
          /\ ~attached2
          /\ sortState2 = <<>>
          /\ body2 = LoadOrder2

\* the table has a body and header cells can be derived for it
HasBodyAndHeader(k, rows) ==
    /\ k \notin {"absent", "noTbody"}
    /\ HeaderColsOf(k, cells, rows) # {}

\* every table with a body and header cells has listeners and a sort state
\* for each of its header cells
EveryTableAttached ==
    /\ HasBodyAndHeader(kind, LoadOrder1) =>
          (attached /\ DOMAIN sortState = HeaderColsOf(kind, cells, LoadOrder1))
    /\ HasBodyAndHeader(kind2, LoadOrder2) =>
          (attached2 /\ DOMAIN sortState2 = HeaderColsOf(kind2, cells, LoadOrder2))

====
